---- MODULE Spec2Model ----
(***************************************************************************)
(* Deferred-acceptance matching of                                         *)
(* src/Ethical_Mutual_Happiness_Stable_Marriage_Solutions.py.              *)
(*                                                                         *)
(* A Python dict is an ordered mapping.  Proposers are named by their      *)
(* position in the key order of men_preferences and receivers by their     *)
(* position in the key order of women_preferences, so a table is a         *)
(* sequence of lists and list(men_preferences.keys()) is <<1, ..., n>>.    *)
(* One step of the model is one pass of the while test or one iteration of *)
(* the inner for loop, so every single proposal is a state of its own.     *)
(***************************************************************************)
EXTENDS Integers, Sequences, FiniteSets, TLC

VARIABLES men_preferences, women_preferences, free_men, engaged, proposals,
          man, pos, pc, run, first,
          trust_scores, respect_weights, adjusted, happiness, satisfaction,
          care_thresholds, honor_weights, emotional_scores,
          threads, log

\* The score tables of reasonable_care_matching and holistic_matching.
variant_tables == <<care_thresholds, honor_weights, emotional_scores>>

\* What lives outside a call of stable_marriage: the score tables of the
\* callers and of the score variants, and the results of the other functions.
surroundings == <<trust_scores, respect_weights, adjusted, happiness, satisfaction, variant_tables, threads>>

\* log is the sequence of <<man, woman>> proposals of a run of a score
\* variant (the functions of
\* src/Ethical_Stable_Marriage_Matching_Algorithms.py), in the order of the
\* appends to proposals[man]; nothing else keeps it.
outside == <<surroundings, log>>

vars == <<men_preferences, women_preferences, free_men, engaged, proposals,
          man, pos, pc, run, first, outside>>

\* Largest number of proposers and of receivers of an input table.
MaxMen == 3
MaxWomen == 3
\* Largest number of proposer-receiver pairs of an input.
MaxPairs == 9
\* Number of calls of stable_marriage on the same tables (SpecRerun).
MaxRuns == 2

\* engaged[w] = Unengaged models "w not in engaged".
Unengaged == 0

Range(s) == {s[k] : k \in 1..Len(s)}

\* All lists that hold every element of S exactly once.
Perms(S) == {s \in [1..Cardinality(S) -> S] : \A a, b \in 1..Cardinality(S) : s[a] = s[b] => a = b}

Men == DOMAIN men_preferences
Women == DOMAIN women_preferences

\* list.index(x): 0-based position of the first occurrence of x.
IndexMut(list, x) == CHOOSE k \in 1..Len(list) : list[k] = x /\ \A j \in 1..(k - 1) : list[j] # x
Index(list, x) == (CHOOSE k \in 1..Len(list) : list[k] = x /\ \A j \in 1..(k - 1) : list[j] # x) - 1

\* list(men_preferences.keys())
Keys(table) == [k \in 1..Len(table) |-> k]

\* free_men.pop(0): what is left of the queue.
PopRestMut(q) == q
PopRest(q) == Tail(q)

\* for woman in man_pref_list: the woman of the k-th iteration.
CandidateMut(m, k) == men_preferences[m][Len(men_preferences[m]) + 1 - k]
Candidate(m, k) == men_preferences[m][k]

\* woman in proposals[man]
AlreadyProposedMut(m, w) == FALSE
AlreadyProposedLastMut(m, w) == proposals[m] # <<>> /\ w = proposals[m][Len(proposals[m])]
AlreadyProposed(m, w) == w \in Range(proposals[m])

\* women_preferences[woman].index(man) < women_preferences[woman].index(current_man)
PrefersMut(w, m, cur) == Index(women_preferences[w], m) > Index(women_preferences[w], cur)
Prefers(w, m, cur) == Index(women_preferences[w], m) < Index(women_preferences[w], cur)

\* free_men.append(current_man)
RequeueMut(q, cur) == q
Requeue(q, cur) == Append(q, cur)

\* The locals of a call, lines 9-13; the proposals tracker of the previous call
\* is the argument a buggy module-level tracker would keep.
FreshProposalsMut(old) == old
FreshProposals(old) == [m \in Men |-> <<>>]

\* The call passes none of the tables of the care and holistic variants.
NoVariantTables ==
    /\ care_thresholds = <<>>
    /\ honor_weights = <<>>
    /\ emotional_scores = <<>>

\* The call runs the loop in the calling thread alone.
NoThreads == threads = <<>>

\* No proposal of a score variant has been made.
NoLog == log = <<>>

\* No score table is passed and nothing but stable_marriage is called.
NoOutside ==
    /\ trust_scores = <<>>
    /\ respect_weights = <<>>
    /\ adjusted = <<>>
    /\ happiness = 0
    /\ satisfaction = <<>>
    /\ NoVariantTables
    /\ NoThreads
    /\ NoLog

\* Line 29 evaluates without raising: women_preferences has the key woman and
\* her list holds both men.
Comparable(w, m, cur) ==
    /\ w \in DOMAIN women_preferences
    /\ m \in Range(women_preferences[w])
    /\ cur \in Range(women_preferences[w])

TypeOK ==
    /\ pc \in {"while", "for", "done", "KeyError", "ValueError", "reported", "adjust"}
    /\ run \in 1..MaxRuns
    /\ \A w \in Women : engaged[w] \in Men \cup {Unengaged}
    /\ \A m \in Men : Range(proposals[m]) \subseteq Women
    /\ Range(free_men) \subseteq Men

\* Every complete input: each list is a permutation of the other side.
Init ==
    /\ \E nP \in 1..MaxMen, nW \in 1..MaxWomen :
          /\ nP * nW <= MaxPairs
          /\ men_preferences \in [1..nP -> Perms(1..nW)]
          /\ women_preferences \in [1..nW -> Perms(1..nP)]
    /\ free_men = Keys(men_preferences)
    /\ engaged = [w \in Women |-> Unengaged]
    /\ proposals = [m \in Men |-> <<>>]
    /\ man = 0
    /\ pos = 0
    /\ pc = "while"
    /\ run = 1
    /\ first = <<>>
    /\ NoOutside

\* while free_men: man = free_men.pop(0); man_pref_list = men_preferences[man]
WhilePop ==
    /\ pc = "while"
    /\ free_men # <<>>
    /\ man' = Head(free_men)
    /\ free_men' = PopRest(free_men)
    /\ pos' = 1
    /\ pc' = "for"
    /\ UNCHANGED <<men_preferences, women_preferences, engaged, proposals, run, first, outside>>

\* for woman in man_pref_list: if woman not in proposals[man] is false
SkipProposed ==
    /\ pc = "for"
    /\ pos <= Len(men_preferences[man])
    /\ AlreadyProposed(man, Candidate(man, pos))
    /\ pos' = pos + 1
    /\ UNCHANGED <<men_preferences, women_preferences, free_men, engaged, proposals, man, pc, run, first, outside>>

\* proposals[man].append(woman); woman not in engaged: engaged[woman] = man; break
ProposeToFree ==
    /\ pc = "for"
    /\ pos <= Len(men_preferences[man])
    /\ LET woman == Candidate(man, pos) IN
          /\ ~AlreadyProposed(man, woman)
          /\ engaged[woman] = Unengaged
          /\ proposals' = [proposals EXCEPT ![man] = Append(@, woman)]
          /\ engaged' = [engaged EXCEPT ![woman] = man]
    /\ pc' = "while"
    /\ UNCHANGED <<men_preferences, women_preferences, free_men, man, pos, run, first, outside>>

\* proposals[man].append(woman); the woman prefers this man:
\* free_men.append(current_man); engaged[woman] = man; break
ProposeAndDisplace ==
    /\ pc = "for"
    /\ pos <= Len(men_preferences[man])
    /\ LET woman == Candidate(man, pos)
           current_man == engaged[woman] IN
          /\ ~AlreadyProposed(man, woman)
          /\ current_man # Unengaged
          /\ Comparable(woman, man, current_man)
          /\ Prefers(woman, man, current_man)
          /\ proposals' = [proposals EXCEPT ![man] = Append(@, woman)]
          /\ free_men' = Requeue(free_men, current_man)
          /\ engaged' = [engaged EXCEPT ![woman] = man]
    /\ pc' = "while"
    /\ UNCHANGED <<men_preferences, women_preferences, man, pos, run, first, outside>>

\* proposals[man].append(woman); the woman keeps current_man: the for loop goes on
ProposeRejected ==
    /\ pc = "for"
    /\ pos <= Len(men_preferences[man])
    /\ LET woman == Candidate(man, pos)
           current_man == engaged[woman] IN
          /\ ~AlreadyProposed(man, woman)
          /\ current_man # Unengaged
          /\ Comparable(woman, man, current_man)
          /\ ~Prefers(woman, man, current_man)
          /\ proposals' = [proposals EXCEPT ![man] = Append(@, woman)]
    /\ pos' = pos + 1
    /\ UNCHANGED <<men_preferences, women_preferences, free_men, engaged, man, pc, run, first, outside>>

\* the for loop ends without break: the man is not put back in free_men
ForExhausted ==
    /\ pc = "for"
    /\ pos > Len(men_preferences[man])
    /\ pc' = "while"
    /\ UNCHANGED <<men_preferences, women_preferences, free_men, engaged, proposals, man, pos, run, first, outside>>

\* while free_men is false: return engaged
Return ==
    /\ pc = "while"
    /\ free_men = <<>>
    /\ pc' = "done"
    /\ UNCHANGED <<men_preferences, women_preferences, free_men, engaged, proposals, man, pos, run, first, outside>>

\* A later call on the same tables (the demo calls stable_marriage on the
\* module-level tables at lines 50, 69 and 174): the locals are built anew.
CallAgain ==
    /\ pc = "done"
    /\ run < MaxRuns
    /\ run' = run + 1
    /\ first' = IF run = 1 THEN engaged ELSE first
    /\ free_men' = Keys(men_preferences)
    /\ engaged' = [w \in Women |-> Unengaged]
    /\ proposals' = FreshProposals(proposals)
    /\ man' = 0
    /\ pos' = 0
    /\ pc' = "while"
    /\ UNCHANGED <<men_preferences, women_preferences, outside>>

\* q without its k-th element.
RemoveAt(q, k) == [j \in 1..(Len(q) - 1) |-> IF j < k THEN q[j] ELSE q[j + 1]]

\* The loop head under an arbitrary selection policy: any free man acts next.
WhilePopAny ==
    /\ pc = "while"
    /\ free_men # <<>>
    /\ \E k \in 1..Len(free_men) :
          /\ man' = free_men[k]
          /\ free_men' = RemoveAt(free_men, k)
    /\ pos' = 1
    /\ pc' = "for"
    /\ UNCHANGED <<men_preferences, women_preferences, engaged, proposals, run, first, outside>>

ForIteration ==
    \/ SkipProposed
    \/ ProposeToFree
    \/ ProposeAndDisplace
    \/ ProposeRejected
    \/ ForExhausted

Next ==
    \/ WhilePop
    \/ ForIteration
    \/ Return

NextRerun ==
    \/ Next
    \/ CallAgain

NextAny ==
    \/ WhilePopAny
    \/ ForIteration
    \/ Return

Spec == Init /\ [][Next]_vars

\* The interpreter always executes the next statement of a running call.
FairSpec == Spec /\ WF_vars(Next)

SpecRerun == Init /\ [][NextRerun]_vars

SpecAny == Init /\ [][NextAny]_vars

FairSpecAny == SpecAny /\ WF_vars(NextAny)

(***************************************************************************)
(* Vocabulary of the properties.                                           *)
(***************************************************************************)

Min(a, b) == IF a < b THEN a ELSE b

Last(s) == s[Len(s)]

\* The receivers whose entry in engaged is proposer p.
Partners(p) == {w \in Women : engaged[w] = p}

EngagedWomen == {w \in Women : engaged[w] # Unengaged}

UnmatchedMen == {m \in Men : Partners(m) = {}}

RECURSIVE SumLen(_)
SumLen(k) == IF k = 0 THEN 0 ELSE Len(proposals[k]) + SumLen(k - 1)

\* Number of proposals recorded so far, over all proposers.
TotalProposals == SumLen(Len(men_preferences))

\* p and r are not matched to each other, p prefers r to his partner (or has
\* none) and r prefers p to her partner (or has none).
BlockingPair(p, r) ==
    /\ engaged[r] # p
    /\ \A w \in Partners(p) : Index(men_preferences[p], r) < Index(men_preferences[p], w)
    /\ \/ engaged[r] = Unengaged
       \/ Index(women_preferences[r], p) < Index(women_preferences[r], engaged[r])

NoBlockingPair == \A p \in Men, r \in Women : ~BlockingPair(p, r)

Injective == \A w1, w2 \in Women : (engaged[w1] # Unengaged /\ engaged[w1] = engaged[w2]) => w1 = w2

NoDuplicates(s) == \A a, b \in 1..Len(s) : s[a] = s[b] => a = b

\* Some proposal of the run was contested: a proposer had to go past his
\* first choice.
Contested == \E m \in Men : Len(proposals[m]) >= 2

\* Every assignment of proposers to receivers (0: unmatched) that is one-to-one.
Matchings == {f \in [Men -> Women \cup {Unengaged}] : \A a, b \in Men : (f[a] # Unengaged /\ f[a] = f[b]) => a = b}

\* f has no blocking pair under the input tables.
StableMatching(f) ==
    \A p \in Men, r \in Women :
        ~ /\ f[p] # r
          /\ (f[p] = Unengaged \/ Index(men_preferences[p], r) < Index(men_preferences[p], f[p]))
          /\ \A q \in Men : f[q] = r => Index(women_preferences[r], p) < Index(women_preferences[r], q)

\* Proposer m finds receiver a at least as good as receiver b (0: unmatched).
WeaklyPrefers(m, a, b) ==
    \/ a = b
    \/ b = Unengaged
    \/ a # Unengaged /\ Index(men_preferences[m], a) < Index(men_preferences[m], b)

\* The matching of the returned mapping, as a function of the proposers.
Returned == [m \in Men |-> IF Partners(m) = {} THEN Unengaged ELSE CHOOSE w \in Partners(m) : TRUE]

(***************************************************************************)
(* Properties.                                                             *)
(***************************************************************************)

\* C1: the matching stable_marriage returns on complete lists has no
\* blocking pair.
Stability == pc = "done" => NoBlockingPair

StabilityWitness ==
    /\ pc = "done"
    /\ Len(men_preferences) >= 3
    /\ Len(women_preferences) >= 3
    /\ Contested
    /\ NoBlockingPair

\* C2: in every state of a run, after each single proposal and at the end,
\* no proposer is the partner of two receivers (and engaged holds one
\* partner per receiver).
InjectiveAtEveryStep == Injective /\ \A w \in Women : engaged[w] \in Men \cup {Unengaged}

InjectiveWitness ==
    /\ pc = "while"
    /\ Contested
    /\ free_men # <<>>
    /\ Cardinality(EngagedWomen) >= 2
    /\ Injective

\* C3: every run on complete lists reaches the return of stable_marriage.
Termination == <>(pc = "done" /\ free_men = <<>>)

TerminationWitness ==
    /\ pc = "done"
    /\ free_men = <<>>
    /\ Contested
    /\ UnmatchedMen # {}

\* C4: the number of recorded proposals never exceeds |P| x |R|.
ProposalBound == TotalProposals <= Len(men_preferences) * Len(women_preferences)

\* All proposers share one most-preferred receiver and the bound is attained.
ProposalBoundWitness ==
    /\ Len(men_preferences) >= 2
    /\ \A m \in Men : men_preferences[m][1] = men_preferences[1][1]
    /\ TotalProposals = Len(men_preferences) * Len(women_preferences)

\* C5: no proposer's history holds a receiver twice.
NoRepeatedProposal == \A m \in Men : NoDuplicates(proposals[m])

\* The first proposer of the queue is accepted by his first choice, so with
\* two receivers in his history he was displaced, rescanned his list from the
\* top and proposed again.
NoRepeatedProposalWitness ==
    /\ man = 1
    /\ Len(proposals[1]) >= 2
    /\ Partners(1) = {Last(proposals[1])}
    /\ NoDuplicates(proposals[1])

\* C6: every proposer finds his returned partner at least as good as his
\* partner in any stable matching of the input.
ProposerOptimal ==
    pc = "done" => \A f \in Matchings : StableMatching(f) => \A m \in Men : WeaklyPrefers(m, Returned[m], f[m])

\* The input has a stable matching other than the returned one.
ProposerOptimalWitness ==
    /\ pc = "done"
    /\ \E f \in Matchings : StableMatching(f) /\ f # Returned
    /\ StableMatching(Returned)

\* The tables of the demo, A B C = 1 2 3 and X Y Z = 1 2 3 in key order.
Scenario ==
    /\ men_preferences = << <<1, 2, 3>>, <<2, 1, 3>>, <<2, 3, 1>> >>
    /\ women_preferences = << <<2, 1, 3>>, <<1, 2, 3>>, <<1, 2, 3>> >>

\* <<proposer, receiver, accepted>> of the proposals of the demo, in order.
ScenarioProposals == << <<1, 1, TRUE>>, <<2, 2, TRUE>>, <<3, 2, FALSE>>, <<3, 3, TRUE>> >>

\* C7: on the demo tables the proposals are A->X accepted, B->Y accepted,
\* C->Y rejected, C->Z accepted, in that order, and the result is
\* {X: A, Y: B, Z: C}, which has no blocking pair.
ScenarioTrace ==
    [][Scenario =>
          /\ \A m \in Men : proposals'[m] # proposals[m] =>
                /\ TotalProposals < Len(ScenarioProposals)
                /\ proposals'[m] = Append(proposals[m], Last(proposals'[m]))
                /\ <<m, Last(proposals'[m]), engaged'[Last(proposals'[m])] = m>> = ScenarioProposals[TotalProposals + 1]
          /\ pc' = "done" =>
                /\ engaged' = <<1, 2, 3>>
                /\ TotalProposals' = Len(ScenarioProposals)
                /\ NoBlockingPair']_vars

ScenarioWitness ==
    /\ Scenario
    /\ pc = "done"
    /\ engaged = <<1, 2, 3>>
    /\ proposals = << <<1>>, <<2>>, <<2, 3>> >>

\* C8: the returned matching has min(|P|, |R|) pairs and |P| - min(|P|, |R|)
\* proposers are left unmatched.
UnequalSides ==
    pc = "done" =>
        /\ Cardinality(EngagedWomen) = Min(Len(men_preferences), Len(women_preferences))
        /\ Cardinality(UnmatchedMen) = Len(men_preferences) - Min(Len(men_preferences), Len(women_preferences))

UnequalSidesWitness ==
    /\ pc = "done"
    /\ Len(men_preferences) = Len(women_preferences) + 1
    /\ Cardinality(UnmatchedMen) = 1
    /\ Cardinality(EngagedWomen) = Len(women_preferences)
    /\ Contested

AnyPolicyCorrect == <>(pc = "done") /\ [](pc = "done" => (Injective /\ NoBlockingPair))

\* The second proposer in key order acted before the first one.
AnyPolicyWitness ==
    /\ Len(men_preferences) >= 2
    /\ proposals[1] = <<>>
    /\ proposals[2] # <<>>
    /\ engaged[proposals[2][1]] = 2

(***************************************************************************)
(* Two selection orders on the same tables: the first call selects in FIFO *)
(* order as the code does, a later call selects any free proposer.         *)
(***************************************************************************)

NextPolicies ==
    \/ run = 1 /\ WhilePop
    \/ run >= 2 /\ WhilePopAny
    \/ ForIteration
    \/ Return
    \/ CallAgain

FairSpecPolicies == Init /\ [][NextPolicies]_vars /\ WF_vars(NextPolicies)

\* The input has more than one stable matching.
MultipleStable == Cardinality({f \in Matchings : StableMatching(f)}) >= 2

\* The later call has let the second proposer of the queue act before the
\* first one, which FIFO never does.
OtherOrder ==
    /\ run >= 2
    /\ Len(men_preferences) >= 2
    /\ proposals[1] = <<>>
    /\ proposals[2] # <<>>

\* C11 as claimed: on an input with more than one stable matching, a run
\* that selects in another order returns another matching than the FIFO run.
PolicyChangesResult == [](OtherOrder => [](pc = "done" /\ MultipleStable => engaged # first))

\* C11 amended: whatever the selection order, the loop returns the matching
\* the FIFO run returns.
PolicyIndependent == (run >= 2 /\ pc = "done") => engaged = first

PolicyIndependentWitness ==
    /\ run >= 2
    /\ pc = "done"
    /\ MultipleStable
    /\ Len(men_preferences) >= 3
    /\ engaged = first

(***************************************************************************)
(* stable_marriage on tables that are not complete permutations.  The code *)
(* has no validation: the only errors are the KeyError and the ValueError  *)
(* that line 29 raises when it looks up a woman or a man that is missing.  *)
(***************************************************************************)

\* Largest number of proposers, of receivers and of pairs of a malformed input.
MaxMalformedMen == 2
MaxMalformedWomen == 2
MaxMalformedPairs == 4

\* All lists over S of length at most n, repetitions included.
Lists(S, n) == UNION {[1..k -> S] : k \in 0..n}

\* An identifier that is no key of women_preferences.
Foreign == Len(women_preferences) + 1

\* Any lists at all: short, with repetitions, with a foreign receiver.
InitMalformed ==
    /\ \E nP \in 1..MaxMalformedMen, nW \in 1..MaxMalformedWomen :
          /\ nP * nW <= MaxMalformedPairs
          /\ men_preferences \in [1..nP -> Lists(1..(nW + 1), nW + 1)]
          /\ women_preferences \in [1..nW -> Lists(1..nP, nP)]
    /\ free_men = Keys(men_preferences)
    /\ engaged = [w \in 1..Foreign |-> Unengaged]
    /\ proposals = [m \in Men |-> <<>>]
    /\ man = 0
    /\ pos = 0
    /\ pc = "while"
    /\ run = 1
    /\ first = <<>>
    /\ NoOutside

\* proposals[man].append(woman); woman is in engaged; women_preferences[woman]
\* raises KeyError
RaiseKeyError ==
    /\ pc = "for"
    /\ pos <= Len(men_preferences[man])
    /\ LET woman == Candidate(man, pos) IN
          /\ ~AlreadyProposed(man, woman)
          /\ engaged[woman] # Unengaged
          /\ woman \notin DOMAIN women_preferences
          /\ proposals' = [proposals EXCEPT ![man] = Append(@, woman)]
    /\ pc' = "KeyError"
    /\ UNCHANGED <<men_preferences, women_preferences, free_men, engaged, man, pos, run, first, outside>>

\* proposals[man].append(woman); woman is in engaged;
\* women_preferences[woman].index raises ValueError for man or for current_man
RaiseValueError ==
    /\ pc = "for"
    /\ pos <= Len(men_preferences[man])
    /\ LET woman == Candidate(man, pos) IN
          /\ ~AlreadyProposed(man, woman)
          /\ engaged[woman] # Unengaged
          /\ woman \in DOMAIN women_preferences
          /\ ~Comparable(woman, man, engaged[woman])
          /\ proposals' = [proposals EXCEPT ![man] = Append(@, woman)]
    /\ pc' = "ValueError"
    /\ UNCHANGED <<men_preferences, women_preferences, free_men, engaged, man, pos, run, first, outside>>

NextMalformed ==
    \/ Next
    \/ RaiseKeyError
    \/ RaiseValueError

SpecMalformed == InitMalformed /\ [][NextMalformed]_vars

\* Every proposer's list is a list of receivers without repetition.
ProposerListsClean == \A m \in Men : NoDuplicates(men_preferences[m]) /\ Range(men_preferences[m]) \subseteq Women

ProposerListsComplete == ProposerListsClean /\ \A m \in Men : Range(men_preferences[m]) = Women

ReceiverListsComplete == \A w \in Women : NoDuplicates(women_preferences[w]) /\ Range(women_preferences[w]) = Men

\* Some entry of engaged is set, the foreign key included.
SomeEngagement == \E w \in DOMAIN engaged : engaged[w] # Unengaged

\* C12: when a proposer's list omits a receiver (all else being well formed)
\* the run records no proposal, makes no engagement and returns no matching.
ShortProposerListRejected ==
    (ProposerListsClean /\ ~ProposerListsComplete /\ ReceiverListsComplete) =>
        (TotalProposals = 0 /\ ~SomeEngagement /\ pc # "done")

\* C13: when a proposer's list holds an identifier that is no key of
\* women_preferences (all else being well formed) the run does not return a
\* matching.
ForeignReceiverRejected ==
    (/\ \E m \in Men : Foreign \in Range(men_preferences[m])
     /\ \A m \in Men : NoDuplicates(men_preferences[m]) /\ Women \subseteq Range(men_preferences[m])
     /\ ReceiverListsComplete) =>
        pc # "done"

\* C14: when a receiver's list misses a proposer (the proposers' lists being
\* complete) the run records no proposal, makes no engagement and returns no
\* matching.
ShortReceiverListRejected ==
    (/\ ProposerListsComplete
     /\ \E w \in Women : ~(Men \subseteq Range(women_preferences[w]))) =>
        (TotalProposals = 0 /\ ~SomeEngagement /\ pc # "done")

(***************************************************************************)
(* trust_based_stable_marriage of                                          *)
(* src/Ethical_Stable_Marriage_Matching_Algorithms.py, lines 8-33.  A      *)
(* score table is a dict keyed by (man, woman): a function whose domain is *)
(* the set of pairs that have an entry.                                    *)
(***************************************************************************)

\* Largest number of pairs of an input that comes with a score table, and
\* largest score.
MaxScoredPairs == 4
MaxScore == 2

\* sorted(..., reverse=True) is stable: x goes behind every element whose key
\* is at least its own.
RECURSIVE InsertDesc(_, _, _)
RECURSIVE InsertDescMut(_, _, _)
InsertDescMut(done, x, key) ==
    IF done = <<>> THEN <<x>>
    ELSE IF key[Head(done)] > key[x] THEN <<Head(done)>> \o InsertDescMut(Tail(done), x, key)
    ELSE <<x>> \o done
InsertDesc(done, x, key) ==
    IF done = <<>> THEN <<x>>
    ELSE IF key[Head(done)] >= key[x] THEN <<Head(done)>> \o InsertDesc(Tail(done), x, key)
    ELSE <<x>> \o done

\* sorted(list, key=..., reverse=True), key given as a function on the elements.
RECURSIVE SortedDesc(_, _)
SortedDesc(list, key) ==
    IF list = <<>> THEN <<>>
    ELSE InsertDesc(SortedDesc(SubSeq(list, 1, Len(list) - 1), key), list[Len(list)], key)

\* Every complete input with any table of trust scores, entries missing or not.
InitTrust ==
    /\ \E nP \in 1..MaxMen, nW \in 1..MaxWomen :
          /\ nP * nW <= MaxScoredPairs
          /\ men_preferences \in [1..nP -> Perms(1..nW)]
          /\ women_preferences \in [1..nW -> Perms(1..nP)]
          /\ \E D \in SUBSET ((1..nP) \X (1..nW)) : trust_scores \in [D -> 0..MaxScore]
    /\ free_men = Keys(men_preferences)
    /\ engaged = [w \in Women |-> Unengaged]
    /\ proposals = [m \in Men |-> <<>>]
    /\ man = 0
    /\ pos = 0
    /\ pc = "while"
    /\ run = 1
    /\ first = <<>>
    /\ respect_weights = <<>>
    /\ adjusted = <<>>
    /\ happiness = 0
    /\ satisfaction = <<>>
    /\ NoVariantTables
    /\ NoThreads
    /\ NoLog

\* The lambda of line 17 can be evaluated on every woman of the man's list.
TrustKeysPresent(m) == \A k \in 1..Len(men_preferences[m]) : <<m, men_preferences[m][k]>> \in DOMAIN trust_scores

\* sorted_prefs of line 17
TrustSortedPrefs(m) == SortedDesc(men_preferences[m], [w \in Range(men_preferences[m]) |-> trust_scores[<<m, w>>]])

\* trust_scores[(man, woman)] > trust_scores[(current_man, woman)]
TrustPrefersMut(w, m, cur) == trust_scores[<<m, w>>] >= trust_scores[<<cur, w>>]
TrustPrefers(w, m, cur) == trust_scores[<<m, w>>] > trust_scores[<<cur, w>>]

\* while free_men: man = free_men.pop(0); sorted_prefs = sorted(...)
TrustPop ==
    /\ pc = "while"
    /\ free_men # <<>>
    /\ TrustKeysPresent(Head(free_men))
    /\ man' = Head(free_men)
    /\ free_men' = Tail(free_men)
    /\ pos' = 1
    /\ pc' = "for"
    /\ UNCHANGED <<men_preferences, women_preferences, engaged, proposals, run, first, outside>>

\* man = free_men.pop(0); the lambda of sorted raises KeyError
TrustRaiseKeyError ==
    /\ pc = "while"
    /\ free_men # <<>>
    /\ ~TrustKeysPresent(Head(free_men))
    /\ man' = Head(free_men)
    /\ free_men' = Tail(free_men)
    /\ pc' = "KeyError"
    /\ UNCHANGED <<men_preferences, women_preferences, engaged, proposals, pos, run, first, outside>>

\* for woman in sorted_prefs: woman already in proposals[man]
TrustSkipProposed ==
    /\ pc = "for"
    /\ pos <= Len(men_preferences[man])
    /\ TrustSortedPrefs(man)[pos] \in Range(proposals[man])
    /\ pos' = pos + 1
    /\ UNCHANGED <<men_preferences, women_preferences, free_men, engaged, proposals, man, pc, run, first, outside>>

\* one proposal, lines 20-31.  current_man reached woman through his own
\* sorted list, so both lookups of line 28 find their key.
TrustPropose ==
    /\ pc = "for"
    /\ pos <= Len(men_preferences[man])
    /\ LET woman == TrustSortedPrefs(man)[pos]
           current_man == engaged[woman] IN
          /\ woman \notin Range(proposals[man])
          /\ proposals' = [proposals EXCEPT ![man] = Append(@, woman)]
          /\ log' = Append(log, <<man, woman>>)
          /\ IF current_man = Unengaged
                THEN /\ engaged' = [engaged EXCEPT ![woman] = man]
                     /\ pc' = "while"
                     /\ UNCHANGED <<free_men, pos>>
                ELSE IF TrustPrefers(woman, man, current_man)
                THEN /\ free_men' = Append(free_men, current_man)
                     /\ engaged' = [engaged EXCEPT ![woman] = man]
                     /\ pc' = "while"
                     /\ UNCHANGED pos
                ELSE /\ pos' = pos + 1
                     /\ UNCHANGED <<free_men, engaged, pc>>
    /\ UNCHANGED <<men_preferences, women_preferences, man, run, first, surroundings>>

\* the for loop ends without break
TrustForExhausted ==
    /\ pc = "for"
    /\ pos > Len(men_preferences[man])
    /\ pc' = "while"
    /\ UNCHANGED <<men_preferences, women_preferences, free_men, engaged, proposals, man, pos, run, first, outside>>

\* while free_men is false: return engaged
TrustReturn ==
    /\ pc = "while"
    /\ free_men = <<>>
    /\ pc' = "done"
    /\ UNCHANGED <<men_preferences, women_preferences, free_men, engaged, proposals, man, pos, run, first, outside>>

NextTrust ==
    \/ TrustPop
    \/ TrustRaiseKeyError
    \/ TrustSkipProposed
    \/ TrustPropose
    \/ TrustForExhausted
    \/ TrustReturn

SpecTrust == InitTrust /\ [][NextTrust]_vars

\* C15: when the score table has no entry for some proposer-receiver pair,
\* the run records no proposal, makes no engagement and returns no matching.
MissingScoreRejected ==
    (\E m \in Men, w \in Women : <<m, w>> \notin DOMAIN trust_scores) =>
        (TotalProposals = 0 /\ ~SomeEngagement /\ pc # "done")

(***************************************************************************)
(* The functions around stable_marriage in                                 *)
(* src/Ethical_Mutual_Happiness_Stable_Marriage_Solutions.py:              *)
(* weighted_preference_adjustment, happiness_score, track_satisfaction.    *)
(***************************************************************************)

\* What sorted(list, ...) leaves of the list it is given: sorted builds a new
\* list (list.sort would reorder the argument in place).
SortedArgumentMut(list, key) == SortedDesc(list, key)
SortedArgument(list, key) == list

\* key=lambda woman: respect_weights[(man, woman)], line 134
ManKey(m) == [w \in Range(men_preferences[m]) |-> respect_weights[<<m, w>>]]

\* key=lambda man: respect_weights[(man, woman)], line 138
WomanKey(w) == [m \in Range(women_preferences[w]) |-> respect_weights[<<m, w>>]]

\* Every complete input with a total table of respect weights.
InitAdjust ==
    /\ \E nP \in 1..MaxMen, nW \in 1..MaxWomen :
          /\ nP * nW <= MaxScoredPairs
          /\ men_preferences \in [1..nP -> Perms(1..nW)]
          /\ women_preferences \in [1..nW -> Perms(1..nP)]
          /\ respect_weights \in [(1..nP) \X (1..nW) -> 0..MaxScore]
    /\ free_men = Keys(men_preferences)
    /\ engaged = [w \in Women |-> Unengaged]
    /\ proposals = [m \in Men |-> <<>>]
    /\ man = 0
    /\ pos = 0
    /\ pc = "adjust"
    /\ run = 1
    /\ first = <<>>
    /\ trust_scores = <<>>
    /\ adjusted = <<>>
    /\ happiness = 0
    /\ satisfaction = <<>>
    /\ NoVariantTables
    /\ NoThreads
    /\ NoLog

\* weighted_preference_adjustment(men_prefs, women_prefs, respect_weights),
\* lines 131-140; adjusted holds the two returned tables.
Adjust ==
    /\ pc = "adjust"
    /\ adjusted' = << [m \in Men |-> SortedDesc(men_preferences[m], ManKey(m))],
                      [w \in Women |-> SortedDesc(women_preferences[w], WomanKey(w))] >>
    /\ men_preferences' = [m \in Men |-> SortedArgument(men_preferences[m], ManKey(m))]
    /\ women_preferences' = [w \in Women |-> SortedArgument(women_preferences[w], WomanKey(w))]
    /\ pc' = "while"
    /\ UNCHANGED <<free_men, engaged, proposals, man, pos, run, first, trust_scores, respect_weights, happiness, satisfaction, variant_tables, threads, log>>

\* happiness_score(men_prefs, women_prefs, match), lines 61-65: the loop over
\* match.items(), here in key order of women_preferences (a sum does not
\* depend on the order of its terms).
RECURSIVE HappinessLoop(_)
HappinessLoop(k) ==
    IF k = 0 THEN 0
    ELSE HappinessLoop(k - 1)
         + (IF engaged[k] = Unengaged THEN 0
            ELSE Index(men_preferences[engaged[k]], k) + Index(women_preferences[k], engaged[k]))

happiness_score == HappinessLoop(Len(women_preferences))

\* track_satisfaction(matches, men_prefs, women_prefs), lines 164-170: a dict
\* keyed by (man, woman).
track_satisfaction ==
    [p \in {<<engaged[w], w>> : w \in EngagedWomen} |->
        <<Index(men_preferences[p[1]], p[2]), Index(women_preferences[p[2]], p[1])>>]

\* What a reporter leaves of the matching it is given.
ReportedMatchMut(match) == [w \in DOMAIN match |-> Unengaged]
ReportedMatch(match) == match

\* The two reporters applied to the returned matching
\* (stable_marriage_with_happiness, lines 68-70, and
\* stable_marriage_with_satisfaction, lines 173-178).
Report ==
    /\ pc = "done"
    /\ happiness' = happiness_score
    /\ satisfaction' = track_satisfaction
    /\ engaged' = ReportedMatch(engaged)
    /\ pc' = "reported"
    /\ UNCHANGED <<men_preferences, women_preferences, free_men, proposals, man, pos, run, first, trust_scores, respect_weights, adjusted, variant_tables, threads, log>>

NextReport ==
    \/ Next
    \/ Report

SpecReport == Init /\ [][NextReport]_vars

NextAdjust ==
    \/ Adjust
    \/ Next
    \/ Report

SpecAdjust == InitAdjust /\ [][NextAdjust]_vars

\* x stands before y in list.
Before(list, x, y) ==
    \E i, j \in 1..Len(list) : i < j /\ list[i] = x /\ list[j] = y /\ \A k \in 1..(j - 1) : list[k] # y

\* 0-based rank of x in list: how many entries are preferred to it.
Rank(list, x) == Cardinality({y \in Range(list) : y # x /\ Before(list, y, x)})

\* out orders the entries of input by non-increasing key, equal keys in the
\* order of input.
Resolved(input, out, key) ==
    /\ Len(out) = Len(input)
    /\ Range(out) = Range(input)
    /\ NoDuplicates(out)
    /\ \A a, b \in 1..Len(out) :
          a < b => \/ key[out[a]] > key[out[b]]
                   \/ key[out[a]] = key[out[b]] /\ Before(input, out[a], out[b])

\* C16: once weighted_preference_adjustment has returned, the list of every
\* man and of every woman is a permutation of that agent's input list, in
\* non-increasing order of the pair's respect weight, and agents of equal
\* weight stand in the order of the input list.
ScoreResolution ==
    pc # "adjust" =>
        /\ DOMAIN adjusted[1] = Men
        /\ DOMAIN adjusted[2] = Women
        /\ \A m \in Men : Resolved(men_preferences[m], adjusted[1][m], ManKey(m))
        /\ \A w \in Women : Resolved(women_preferences[w], adjusted[2][w], WomanKey(w))

\* A man with three women, two of them tied, whose list the adjustment reorders.
ScoreResolutionWitness ==
    /\ pc # "adjust"
    /\ \E m \in Men :
          /\ Len(men_preferences[m]) = 3
          /\ adjusted[1][m] # men_preferences[m]
          /\ \E x, y \in Women : x # y /\ respect_weights[<<m, x>>] = respect_weights[<<m, y>>]
                                       /\ Before(adjusted[1][m], x, y)

\* C17: no step of weighted_preference_adjustment, stable_marriage or the
\* reporters changes the preference tables or the respect weights; the
\* reporters leave the matching as they found it; while stable_marriage runs
\* nothing outside it changes.
NoInputMutation ==
    [][ /\ men_preferences' = men_preferences
        /\ women_preferences' = women_preferences
        /\ respect_weights' = respect_weights
        /\ trust_scores' = trust_scores
        /\ (pc \in {"adjust", "done"} => UNCHANGED <<engaged, free_men, proposals>>)
        /\ (pc \in {"while", "for"} => UNCHANGED <<adjusted, happiness, satisfaction>>) ]_vars

\* Every operation has run, and the adjustment did reorder a list.
NoInputMutationWitness ==
    /\ pc = "reported"
    /\ adjusted[1] # men_preferences
    /\ adjusted[2] # women_preferences
    /\ happiness > 0
    /\ TotalProposals > Len(men_preferences)

RECURSIVE PairSum(_)
PairSum(S) ==
    IF S = {} THEN 0
    ELSE LET w == CHOOSE x \in S : TRUE
         IN  Rank(men_preferences[engaged[w]], w) + Rank(women_preferences[w], engaged[w])
             + PairSum(S \ {w})

\* C18: for the returned matching, happiness_score is the sum over the
\* matched pairs of the man's rank of the woman plus the woman's rank of the
\* man, and track_satisfaction has exactly one entry per matched pair, the
\* tuple of these two ranks.
OutcomeReport ==
    pc = "reported" =>
        /\ happiness = PairSum(EngagedWomen)
        /\ DOMAIN satisfaction = {<<engaged[w], w>> : w \in EngagedWomen}
        /\ Cardinality(DOMAIN satisfaction) = Cardinality(EngagedWomen)
        /\ \A w \in EngagedWomen :
              satisfaction[<<engaged[w], w>>] =
                  <<Rank(men_preferences[engaged[w]], w), Rank(women_preferences[w], engaged[w])>>

\* A report over three pairs where a man and a woman both miss their first choice.
OutcomeReportWitness ==
    /\ pc = "reported"
    /\ Cardinality(EngagedWomen) = 3
    /\ happiness >= 3
    /\ \E w \in EngagedWomen : satisfaction[<<engaged[w], w>>][1] >= 1
    /\ \E w \in EngagedWomen : satisfaction[<<engaged[w], w>>][2] >= 2

(***************************************************************************)
(* The life of one proposer during a run of stable_marriage.               *)
(***************************************************************************)

\* How often x occurs in list.
Count(list, x) == Cardinality({i \in 1..Len(list) : list[i] = x})

\* m has proposed to every woman of his list and has no partner.
ExhaustedFree(m) ==
    /\ Range(men_preferences[m]) \subseteq Range(proposals[m])
    /\ Partners(m) = {}

\* The state of proposer m, read from the engine's variables.
ProposerState(m) ==
    IF Partners(m) # {} THEN "Engaged"
    ELSE IF pc = "for" /\ man = m THEN "Proposing"
    ELSE IF m \in Range(free_men) THEN "Free"
    ELSE "Unmatched"

AllowedMoves ==
    { <<"Free", "Proposing">>, <<"Proposing", "Engaged">>, <<"Proposing", "Unmatched">>,
      <<"Engaged", "Free">> }

\* C19: a man who has proposed to every woman of his list and has no partner
\* stays so: no step appends him to free_men, adds a proposal of his or
\* engages him; and every man's state only moves Free -> Proposing ->
\* Engaged -> Free (displaced) or Proposing -> Unmatched, Unmatched being left
\* by no step, and at the return every man is Engaged or Unmatched.
UnmatchedTerminal ==
    /\ [][\A m \in Men :
            /\ ExhaustedFree(m) =>
                  /\ ExhaustedFree(m)'
                  /\ proposals'[m] = proposals[m]
                  /\ Count(free_men', m) <= Count(free_men, m)
            /\ \/ ProposerState(m)' = ProposerState(m)
               \/ <<ProposerState(m), ProposerState(m)'>> \in AllowedMoves]_vars
    /\ [](pc = "done" => \A m \in Men : ProposerState(m) \in {"Engaged", "Unmatched"})

\* At the return a man who went through a list of two women is unmatched,
\* while another man lost his first partner and found a second one.
UnmatchedTerminalWitness ==
    /\ pc = "done"
    /\ \E m \in Men :
          /\ ProposerState(m) = "Unmatched"
          /\ ExhaustedFree(m)
          /\ Len(proposals[m]) >= 2
    /\ \E m \in Men : Partners(m) # {} /\ Len(proposals[m]) >= 2

(***************************************************************************)
(* The decision of an engaged woman, lines 26-33.                          *)
(***************************************************************************)

\* The next step is a proposal of man to a woman who is engaged.
ProposalToEngaged ==
    /\ pc = "for"
    /\ pos <= Len(men_preferences[man])
    /\ ~AlreadyProposed(man, Candidate(man, pos))
    /\ engaged[Candidate(man, pos)] # Unengaged

\* What line 26-33 must do on a proposal to an engaged woman.
DecisionStep ==
    LET woman == Candidate(man, pos)
        current_man == engaged[woman]
    IN  IF Before(women_preferences[woman], man, current_man)
        THEN /\ engaged' = [engaged EXCEPT ![woman] = man]
             /\ free_men' = Append(free_men, current_man)
        ELSE /\ engaged' = engaged
             /\ free_men' = free_men
             /\ Partners(man)' = {}
             /\ man' = man
             /\ pc' = "for"

Decision == [][ProposalToEngaged => DecisionStep]_vars

\* m is back in free_men after a displacement.
Requeued(m) == m \in Men /\ m \in Range(free_men) /\ proposals[m] # <<>>

\* m is in his for loop at a woman he has not proposed to: the step that
\* follows is a proposal of his.
AboutToPropose(m) ==
    /\ pc = "for"
    /\ man = m
    /\ pos <= Len(men_preferences[m])
    /\ ~AlreadyProposed(m, Candidate(m, pos))

ListExhausted(m) == Range(men_preferences[m]) \subseteq Range(proposals[m])

\* C20 as stated: an engaged woman keeps whichever of the proposer and her
\* partner stands earlier in her list; a displaced partner is appended to
\* free_men in the same step and later proposes again; a rejected proposer
\* stays free and the engagement is unchanged.
DisplacedProposesAgain ==
    /\ Decision
    /\ \A m \in 1..MaxMen : Requeued(m) ~> AboutToPropose(m)

\* C20: an engaged woman keeps whichever of the proposer and her partner
\* stands earlier in her list; a displaced partner is appended to free_men in
\* the same step and later proposes again unless he has already proposed to
\* every woman of his list; a rejected proposer stays free and the engagement
\* is unchanged.
ReceiverDecision ==
    /\ Decision
    /\ \A m \in 1..MaxMen : (Requeued(m) /\ ~ListExhausted(m)) ~> AboutToPropose(m)

\* A displaced man with women left waits in free_men, the woman being
\* engaged to the man she ranks higher, who has just proposed to her.
ReceiverDecisionWitness ==
    /\ pc = "while"
    /\ man # 0
    /\ \E m \in Men :
          /\ Requeued(m)
          /\ ~ListExhausted(m)
          /\ Partners(man) = {Last(proposals[m])}
          /\ Last(proposals[man]) = Last(proposals[m])
          /\ Before(women_preferences[Last(proposals[m])], man, m)

(***************************************************************************)
(* The proposal history proposals[man], lines 13-20.                       *)
(***************************************************************************)

\* s is an initial part of t.
IsPrefix(s, t) == Len(s) <= Len(t) /\ \A k \in 1..Len(s) : s[k] = t[k]

\* The woman m ranks highest among those he has not proposed to.
MostPreferredNew(m) ==
    LET new == {k \in 1..Len(men_preferences[m]) : men_preferences[m][k] \notin Range(proposals[m])}
    IN  men_preferences[m][CHOOSE k \in new : \A j \in new : k <= j]

\* The step is a proposal of m: his for loop leaves a woman who is not in
\* his history.
ProposalStep(m) == AboutToPropose(m) /\ (pos' # pos \/ pc' # pc)

\* C21: every man's history is an initial part of his preference list, and
\* every proposal appends to the history of the proposing man the woman he
\* ranks highest among those not in it, whether she accepts or rejects him.
ProposalOrder ==
    /\ [](\A m \in Men : IsPrefix(proposals[m], men_preferences[m]))
    /\ [][\A m \in Men :
            /\ ProposalStep(m) => proposals'[m] = Append(proposals[m], MostPreferredNew(m))
            /\ ~ProposalStep(m) => proposals'[m] = proposals[m]]_vars

\* A man taken from free_men a second time has been rejected by his second
\* woman and stands before the third, after a first one who left him.
ProposalOrderWitness ==
    /\ pc = "for"
    /\ pos = 3
    /\ Len(proposals[man]) = 2
    /\ AboutToPropose(man)
    /\ \E m \in Men : m # man /\ Len(proposals[m]) >= 2

\* C22: no step removes or changes an element of a man's history, the step
\* that displaces him included, and a history never holds more elements than
\* there are women.
HistoryMonotone ==
    /\ [][\A m \in Men : IsPrefix(proposals[m], proposals'[m])]_vars
    /\ [](\A m \in Men : Len(proposals[m]) <= Len(women_preferences))

\* A displaced man waits in free_men with his history kept, a second man's
\* history holding every woman.
HistoryMonotoneWitness ==
    /\ \E m \in Men : Requeued(m) /\ Len(proposals[m]) >= 2
    /\ \E m \in Men : ~Requeued(m) /\ Len(proposals[m]) = Len(women_preferences)

(***************************************************************************)
(* trust_based_stable_marriage(men, women, s) next to stable_marriage on   *)
(* the tables of weighted_preference_adjustment(men, women, s).            *)
(***************************************************************************)

\* Every complete input with a total score table s, passed as trust_scores
\* to the one function and as respect_weights to the other.
InitEquiv ==
    /\ \E nP \in 1..MaxMen, nW \in 1..MaxWomen :
          /\ nP * nW <= MaxScoredPairs
          /\ men_preferences \in [1..nP -> Perms(1..nW)]
          /\ women_preferences \in [1..nW -> Perms(1..nP)]
          /\ trust_scores \in [(1..nP) \X (1..nW) -> 0..MaxScore]
    /\ respect_weights = trust_scores
    /\ free_men = Keys(men_preferences)
    /\ engaged = [w \in Women |-> Unengaged]
    /\ proposals = [m \in Men |-> <<>>]
    /\ man = 0
    /\ pos = 0
    /\ pc = "while"
    /\ run = 1
    /\ first = <<>>
    /\ adjusted = <<>>
    /\ happiness = 0
    /\ satisfaction = <<>>
    /\ NoVariantTables
    /\ NoThreads
    /\ NoLog

\* After trust_based_stable_marriage has returned (its matching kept in
\* first): weighted_preference_adjustment on the same tables, and the call
\* stable_marriage(adjusted_men_prefs, adjusted_women_prefs), whose
\* parameters men_preferences and women_preferences are the adjusted tables.
CallAdjusted ==
    /\ pc = "done"
    /\ run = 1
    /\ run < MaxRuns
    /\ first' = engaged
    /\ adjusted' = << [m \in Men |-> SortedDesc(men_preferences[m], ManKey(m))],
                      [w \in Women |-> SortedDesc(women_preferences[w], WomanKey(w))] >>
    /\ men_preferences' = adjusted'[1]
    /\ women_preferences' = adjusted'[2]
    /\ free_men' = Keys(men_preferences)
    /\ engaged' = [w \in Women |-> Unengaged]
    /\ proposals' = [m \in Men |-> <<>>]
    /\ man' = 0
    /\ pos' = 0
    /\ run' = run + 1
    /\ pc' = "while"
    /\ UNCHANGED <<trust_scores, respect_weights, happiness, satisfaction, variant_tables, threads, log>>

NextEquiv ==
    \/ run = 1 /\ TrustPop
    \/ run = 1 /\ TrustSkipProposed
    \/ run = 1 /\ TrustPropose
    \/ run = 1 /\ TrustForExhausted
    \/ run = 1 /\ TrustReturn
    \/ CallAdjusted
    \/ run = 2 /\ Next

SpecEquiv == InitEquiv /\ [][NextEquiv]_vars

\* No woman is given the same score with two men.
ColumnTieFree ==
    \A w \in Women : \A m1, m2 \in Men : m1 # m2 => trust_scores[<<m1, w>>] # trust_scores[<<m2, w>>]

DemoCare ==
    [p \in (1..3) \X (1..3) |->
        << <<6, 8, 7>>, <<7, 5, 9>>, <<8, 6, 9>> >>[p[1]][p[2]]]

\* Every complete input with a total care table, and the demo of the file.
InitCare ==
    /\ \/ \E nP \in 1..MaxMen, nW \in 1..MaxWomen :
             /\ nP * nW <= MaxScoredPairs
             /\ men_preferences \in [1..nP -> Perms(1..nW)]
             /\ women_preferences \in [1..nW -> Perms(1..nP)]
             /\ care_thresholds \in [(1..nW) \X (1..nP) -> 0..MaxScore]
       \/ /\ Scenario
          /\ care_thresholds = DemoCare
    /\ free_men = Keys(men_preferences)
    /\ engaged = [w \in Women |-> Unengaged]
    /\ proposals = [m \in Men |-> <<>>]
    /\ man = 0
    /\ pos = 0
    /\ pc = "while"
    /\ run = 1
    /\ first = <<>>
    /\ trust_scores = <<>>
    /\ respect_weights = <<>>
    /\ adjusted = <<>>
    /\ happiness = 0
    /\ satisfaction = <<>>
    /\ honor_weights = <<>>
    /\ emotional_scores = <<>>
    /\ NoThreads
    /\ NoLog

\* care_thresholds[(woman, man)] > care_thresholds[(woman, current_man)]
CarePrefersMut(w, m, cur) == care_thresholds[<<w, m>>] < care_thresholds[<<w, cur>>]
CarePrefers(w, m, cur) == care_thresholds[<<w, m>>] > care_thresholds[<<w, cur>>]

\* while free_men: man = free_men.pop(0); man_pref_list = men_preferences[man]
CarePop ==
    /\ pc = "while"
    /\ free_men # <<>>
    /\ man' = Head(free_men)
    /\ free_men' = Tail(free_men)
    /\ pos' = 1
    /\ pc' = "for"
    /\ UNCHANGED <<men_preferences, women_preferences, engaged, proposals, run, first, outside>>

\* for woman in man_pref_list: woman already in proposals[man]
CareSkipProposed ==
    /\ pc = "for"
    /\ pos <= Len(men_preferences[man])
    /\ men_preferences[man][pos] \in Range(proposals[man])
    /\ pos' = pos + 1
    /\ UNCHANGED <<men_preferences, women_preferences, free_men, engaged, proposals, man, pc, run, first, outside>>

\* one proposal, lines 118-129
CarePropose ==
    /\ pc = "for"
    /\ pos <= Len(men_preferences[man])
    /\ LET woman == men_preferences[man][pos]
           current_man == engaged[woman] IN
          /\ woman \notin Range(proposals[man])
          /\ proposals' = [proposals EXCEPT ![man] = Append(@, woman)]
          /\ log' = Append(log, <<man, woman>>)
          /\ IF current_man = Unengaged
                THEN /\ engaged' = [engaged EXCEPT ![woman] = man]
                     /\ pc' = "while"
                     /\ UNCHANGED <<free_men, pos>>
                ELSE IF CarePrefers(woman, man, current_man)
                THEN /\ free_men' = Append(free_men, current_man)
                     /\ engaged' = [engaged EXCEPT ![woman] = man]
                     /\ pc' = "while"
                     /\ UNCHANGED pos
                ELSE /\ pos' = pos + 1
                     /\ UNCHANGED <<free_men, engaged, pc>>
    /\ UNCHANGED <<men_preferences, women_preferences, man, run, first, surroundings>>

\* the for loop ends without break
CareForExhausted ==
    /\ pc = "for"
    /\ pos > Len(men_preferences[man])
    /\ pc' = "while"
    /\ UNCHANGED <<men_preferences, women_preferences, free_men, engaged, proposals, man, pos, run, first, outside>>

\* while free_men is false: return engaged
CareReturn ==
    /\ pc = "while"
    /\ free_men = <<>>
    /\ pc' = "done"
    /\ UNCHANGED <<men_preferences, women_preferences, free_men, engaged, proposals, man, pos, run, first, outside>>

NextCare ==
    \/ CarePop
    \/ CareSkipProposed
    \/ CarePropose
    \/ CareForExhausted
    \/ CareReturn

SpecCare == InitCare /\ [][NextCare]_vars

\* C24: the matching reasonable_care_matching returns has no man and woman,
\* not matched to each other, who each rank the other above their partner in
\* men_preferences and women_preferences; so for the demo of the file.
CareStable ==
    pc = "done" =>
        /\ NoBlockingPair
        /\ (Scenario /\ care_thresholds = DemoCare) => ~BlockingPair(1, 2)

(***************************************************************************)
(* The loop of stable_marriage run by several threads (section 5 of the    *)
(* specification): free_men is a queue with atomic access, every thread    *)
(* takes a man and proposes down his list as lines 16-32 do.  The part of  *)
(* a proposal that concerns the woman is two steps, the read of her        *)
(* partner (line 23/28) and the comparison with the write (lines 24,       *)
(* 29-31); with one lock per woman a thread reads only while no other      *)
(* thread is between its read and its write for the same woman.            *)
(***************************************************************************)

MaxThreads == 2

\* Largest number of pairs of an input the threads run on.
MaxConcPairs == 6

Threads == DOMAIN threads

callers == <<trust_scores, respect_weights, adjusted, happiness, satisfaction, variant_tables, log>>

\* A thread that holds no man.
Idle == [pc |-> "idle", man |-> 0, pos |-> 0, cur |-> Unengaged]

InitThreads ==
    /\ \E nP \in 1..MaxMen, nW \in 1..MaxWomen :
          /\ nP * nW <= MaxConcPairs
          /\ men_preferences \in [1..nP -> Perms(1..nW)]
          /\ women_preferences \in [1..nW -> Perms(1..nP)]
    /\ free_men = Keys(men_preferences)
    /\ engaged = [w \in Women |-> Unengaged]
    /\ proposals = [m \in Men |-> <<>>]
    /\ man = 0
    /\ pos = 0
    /\ pc = "while"
    /\ run = 1
    /\ first = <<>>
    /\ trust_scores = <<>>
    /\ respect_weights = <<>>
    /\ adjusted = <<>>
    /\ happiness = 0
    /\ satisfaction = <<>>
    /\ NoVariantTables
    /\ threads = [t \in 1..MaxThreads |-> Idle]
    /\ NoLog

\* The woman thread t is at.
ThreadWoman(t) == Candidate(threads[t].man, threads[t].pos)

\* while free_men: man = free_men.pop(0), the test and the pop in one step
ThreadPop ==
    \E t \in Threads :
        /\ threads[t].pc = "idle"
        /\ free_men # <<>>
        /\ threads' = [threads EXCEPT ![t] = [pc |-> "for", man |-> Head(free_men), pos |-> 1, cur |-> Unengaged]]
        /\ free_men' = PopRest(free_men)
        /\ UNCHANGED <<men_preferences, women_preferences, engaged, proposals, man, pos, pc, run, first, callers>>

\* while free_men is false: the thread ends
ThreadExit ==
    \E t \in Threads :
        /\ threads[t].pc = "idle"
        /\ free_men = <<>>
        /\ threads' = [threads EXCEPT ![t].pc = "exit"]
        /\ UNCHANGED <<men_preferences, women_preferences, free_men, engaged, proposals, man, pos, pc, run, first, callers>>

\* if woman not in proposals[man] is false
ThreadSkip ==
    \E t \in Threads :
        /\ threads[t].pc = "for"
        /\ threads[t].pos <= Len(men_preferences[threads[t].man])
        /\ AlreadyProposed(threads[t].man, ThreadWoman(t))
        /\ threads' = [threads EXCEPT ![t].pos = @ + 1]
        /\ UNCHANGED <<men_preferences, women_preferences, free_men, engaged, proposals, man, pos, pc, run, first, callers>>

\* the for loop ends without break
ThreadExhausted ==
    \E t \in Threads :
        /\ threads[t].pc = "for"
        /\ threads[t].pos > Len(men_preferences[threads[t].man])
        /\ threads' = [threads EXCEPT ![t] = Idle]
        /\ UNCHANGED <<men_preferences, women_preferences, free_men, engaged, proposals, man, pos, pc, run, first, callers>>

\* Another thread is between its read and its write for woman w.
Held(t, w) == \E u \in Threads \ {t} : threads[u].pc = "decide" /\ ThreadWoman(u) = w

\* proposals[man].append(woman); the read of engaged[woman]
ReadPartner(t) ==
    /\ threads[t].pc = "for"
    /\ threads[t].pos <= Len(men_preferences[threads[t].man])
    /\ ~AlreadyProposed(threads[t].man, ThreadWoman(t))
    /\ proposals' = [proposals EXCEPT ![threads[t].man] = Append(@, ThreadWoman(t))]
    /\ threads' = [threads EXCEPT ![t].pc = "decide", ![t].cur = engaged[ThreadWoman(t)]]
    /\ UNCHANGED <<men_preferences, women_preferences, free_men, engaged, man, pos, pc, run, first, callers>>

\* The read without any lock.
ThreadRead == \E t \in Threads : ReadPartner(t)

\* The read under the lock of the woman.
ThreadReadLocked ==
    \E t \in Threads :
        /\ threads[t].pc = "for"
        /\ threads[t].pos <= Len(men_preferences[threads[t].man])
        /\ ~Held(t, ThreadWoman(t))
        /\ ReadPartner(t)

\* The comparison and the write, with the partner that was read.
ThreadWrite ==
    \E t \in Threads :
        /\ threads[t].pc = "decide"
        /\ LET m == threads[t].man
               woman == ThreadWoman(t)
               current_man == threads[t].cur
           IN  IF current_man = Unengaged
               THEN /\ engaged' = [engaged EXCEPT ![woman] = m]
                    /\ threads' = [threads EXCEPT ![t] = Idle]
                    /\ UNCHANGED free_men
               ELSE IF Prefers(woman, m, current_man)
               THEN /\ free_men' = Requeue(free_men, current_man)
                    /\ engaged' = [engaged EXCEPT ![woman] = m]
                    /\ threads' = [threads EXCEPT ![t] = Idle]
               ELSE /\ threads' = [threads EXCEPT ![t].pc = "for", ![t].pos = @ + 1]
                    /\ UNCHANGED <<free_men, engaged>>
        /\ UNCHANGED <<men_preferences, women_preferences, proposals, man, pos, pc, run, first, callers>>

\* Every thread has ended: engaged is the result.
Join ==
    /\ pc = "while"
    /\ \A t \in Threads : threads[t].pc = "exit"
    /\ pc' = "done"
    /\ UNCHANGED <<men_preferences, women_preferences, free_men, engaged, proposals, man, pos, run, first, outside>>

NextRace ==
    \/ ThreadPop
    \/ ThreadExit
    \/ ThreadSkip
    \/ ThreadExhausted
    \/ ThreadRead
    \/ ThreadWrite
    \/ Join

NextLocked ==
    \/ ThreadPop
    \/ ThreadExit
    \/ ThreadSkip
    \/ ThreadExhausted
    \/ ThreadReadLocked
    \/ ThreadWrite
    \/ Join

SpecRace == InitThreads /\ [][NextRace]_vars

FairSpecLocked == InitThreads /\ [][NextLocked]_vars /\ WF_vars(NextLocked)

\* m is lost: without partner, not in free_men, held by no thread, and with
\* women left in his list.
Lost(m) ==
    /\ Partners(m) = {}
    /\ m \notin Range(free_men)
    /\ \A t \in Threads : threads[t].man # m
    /\ ~ListExhausted(m)

\* w is engaged to a man she ranks below a man whose proposal to her is over.
LessPreferredKept(w) ==
    \E m \in Men :
        /\ w \in Range(proposals[m])
        /\ \A t \in Threads : ~(threads[t].man = m /\ threads[t].pc = "decide" /\ ThreadWoman(t) = w)
        /\ engaged[w] \notin {m, Unengaged}
        /\ Prefers(w, m, engaged[w])

BadState == (\E m \in Men : Lost(m)) \/ (\E w \in Women : LessPreferredKept(w))

\* Thread t writes after another thread has changed the partner it read.
StaleWrite(t) ==
    /\ threads[t].pc = "decide"
    /\ threads[t].cur # engaged[ThreadWoman(t)]
    /\ threads'[t].pc # "decide"

\* C25: without synchronization an interleaving reaches a state with a lost
\* proposer or with a woman left with the less preferred of two proposers
\* (the witness), and such a state is first entered only by a write of a
\* thread whose read of the woman's partner another thread has overtaken.
RaceReachesBadState == [][(~BadState /\ BadState') => \E t \in Threads : StaleWrite(t)]_vars

\* The threads have ended; a man with women left in his list is lost and a
\* woman is left with the less preferred of two men who proposed to her.
RaceWitness ==
    /\ pc = "done"
    /\ \E m \in Men : Lost(m)
    /\ \E w \in Women : LessPreferredKept(w)

\* C26: with one lock per woman and an atomic queue of free men, under every
\* interleaving every thread ends, and the matching then has no man engaged
\* to two women and no blocking pair.
LockedCorrect ==
    /\ <>(pc = "done")
    /\ [](pc = "done" => (Injective /\ NoBlockingPair /\ ~BadState))

\* The threads have ended after two of them stood before the same woman at
\* the same time, one waiting for the other's write; a man was displaced.
LockedCorrectWitness ==
    /\ pc = "done"
    /\ Len(men_preferences) >= 3
    /\ Cardinality(EngagedWomen) >= 2
    /\ \E m1, m2 \in Men : m1 # m2 /\ proposals[m1] # <<>> /\ proposals[m2] # <<>>
                            /\ proposals[m1][1] = proposals[m2][1]
                            /\ Len(proposals[m1]) >= 2
    /\ UnmatchedMen # {}

(***************************************************************************)
(* Lists that leave out agents of the other side.                          *)
(***************************************************************************)

\* Every list is free of repetitions and names only agents of the other side.
PartialLists ==
    /\ ProposerListsClean
    /\ \A w \in Women : NoDuplicates(women_preferences[w]) /\ Range(women_preferences[w]) \subseteq Men

\* C27: with lists that leave out counterparts, a woman decides every
\* proposal (a man she has not ranked loses to a ranked one, no error is
\* raised), and a man who ends without partner has proposed to every woman,
\* those he left out included.
UnrankedRankLast ==
    PartialLists =>
        /\ pc # "ValueError"
        /\ pc = "done" => \A m \in UnmatchedMen : Women \subseteq Range(proposals[m])

(***************************************************************************)
(* holistic_matching,                                                      *)
(* src/Ethical_Stable_Marriage_Matching_Algorithms.py lines 195-232.       *)
(* Scores are integers; the weights 0.4, 0.3, 0.3 of lines 207-209 are     *)
(* taken times ten, which leaves every comparison of two sums as it is.    *)
(***************************************************************************)

\* Largest number of pairs of an input of holistic_matching, and largest
\* entry of its four tables.
MaxHolisticPairs == 4
MaxHolisticScore == 1

\* The key of the sort, lines 206-210.
CompositeMut(m, w) == 4 * trust_scores[<<m, w>>] + 3 * honor_weights[<<m, w>>]
Composite(m, w) ==
    4 * trust_scores[<<m, w>>] + 3 * honor_weights[<<m, w>>] + 3 * emotional_scores[<<m, w>>]

\* Every complete men_preferences with four total tables.  The function does
\* not read women_preferences: one table stands for all.
InitHolistic ==
    /\ \E nP \in 1..MaxMen, nW \in 1..MaxWomen :
          /\ nP * nW <= MaxHolisticPairs
          /\ men_preferences \in [1..nP -> Perms(1..nW)]
          /\ women_preferences = [w \in 1..nW |-> [k \in 1..nP |-> k]]
          /\ trust_scores \in [(1..nP) \X (1..nW) -> 0..MaxHolisticScore]
          /\ honor_weights \in [(1..nP) \X (1..nW) -> 0..MaxHolisticScore]
          /\ emotional_scores \in [(1..nP) \X (1..nW) -> 0..MaxHolisticScore]
          /\ care_thresholds \in [(1..nW) \X (1..nP) -> 0..MaxHolisticScore]
    /\ free_men = Keys(men_preferences)
    /\ engaged = [w \in Women |-> Unengaged]
    /\ proposals = [m \in Men |-> <<>>]
    /\ man = 0
    /\ pos = 0
    /\ pc = "while"
    /\ run = 1
    /\ first = <<>>
    /\ respect_weights = <<>>
    /\ adjusted = <<>>
    /\ happiness = 0
    /\ satisfaction = <<>>
    /\ NoThreads
    /\ NoLog

\* scored_preferences of lines 204-212
ScoredPreferences(m) ==
    SortedDesc(men_preferences[m], [w \in Range(men_preferences[m]) |-> Composite(m, w)])

\* while free_men: man = free_men.pop(0); scored_preferences = sorted(...)
HolisticPop ==
    /\ pc = "while"
    /\ free_men # <<>>
    /\ man' = Head(free_men)
    /\ free_men' = Tail(free_men)
    /\ pos' = 1
    /\ pc' = "for"
    /\ UNCHANGED <<men_preferences, women_preferences, engaged, proposals, run, first, outside>>

\* for woman in scored_preferences: woman already in proposals[man]
HolisticSkipProposed ==
    /\ pc = "for"
    /\ pos <= Len(men_preferences[man])
    /\ ScoredPreferences(man)[pos] \in Range(proposals[man])
    /\ pos' = pos + 1
    /\ UNCHANGED <<men_preferences, women_preferences, free_men, engaged, proposals, man, pc, run, first, outside>>

\* one proposal, lines 215-228
HolisticPropose ==
    /\ pc = "for"
    /\ pos <= Len(men_preferences[man])
    /\ LET woman == ScoredPreferences(man)[pos]
           current_man == engaged[woman] IN
          /\ woman \notin Range(proposals[man])
          /\ proposals' = [proposals EXCEPT ![man] = Append(@, woman)]
          /\ log' = Append(log, <<man, woman>>)
          /\ IF current_man = Unengaged
                THEN /\ engaged' = [engaged EXCEPT ![woman] = man]
                     /\ pc' = "while"
                     /\ UNCHANGED <<free_men, pos>>
                ELSE IF CarePrefers(woman, man, current_man)
                THEN /\ free_men' = Append(free_men, current_man)
                     /\ engaged' = [engaged EXCEPT ![woman] = man]
                     /\ pc' = "while"
                     /\ UNCHANGED pos
                ELSE /\ pos' = pos + 1
                     /\ UNCHANGED <<free_men, engaged, pc>>
    /\ UNCHANGED <<men_preferences, women_preferences, man, run, first, surroundings>>

\* the for loop ends without break
HolisticForExhausted ==
    /\ pc = "for"
    /\ pos > Len(men_preferences[man])
    /\ pc' = "while"
    /\ UNCHANGED <<men_preferences, women_preferences, free_men, engaged, proposals, man, pos, run, first, outside>>

\* while free_men is false: return engaged
HolisticReturn ==
    /\ pc = "while"
    /\ free_men = <<>>
    /\ pc' = "done"
    /\ UNCHANGED <<men_preferences, women_preferences, free_men, engaged, proposals, man, pos, run, first, outside>>

NextHolistic ==
    \/ HolisticPop
    \/ HolisticSkipProposed
    \/ HolisticPropose
    \/ HolisticForExhausted
    \/ HolisticReturn

SpecHolistic == InitHolistic /\ [][NextHolistic]_vars

\* Ten times 0.4*trust + 0.3*honor + 0.3*emotional.
TenfoldScore(m, w) ==
    4 * trust_scores[<<m, w>>] + 3 * (honor_weights[<<m, w>>] + emotional_scores[<<m, w>>])

\* No man has the same composite score with two women, no woman the same
\* care threshold with two men.
HolisticTieFree ==
    /\ \A m \in Men : \A w1, w2 \in Women : w1 # w2 => TenfoldScore(m, w1) # TenfoldScore(m, w2)
    /\ \A w \in Women : \A m1, m2 \in Men : m1 # m2 => care_thresholds[<<w, m1>>] # care_thresholds[<<w, m2>>]

\* p and r are not matched to each other, p's composite score is higher with
\* r than with his partner (or he has none), and r's care threshold is
\* higher for p than for her partner (or she has none).
DerivedBlockingPair(p, r) ==
    /\ engaged[r] # p
    /\ \A w \in Partners(p) : TenfoldScore(p, r) > TenfoldScore(p, w)
    /\ \/ engaged[r] = Unengaged
       \/ care_thresholds[<<r, p>>] > care_thresholds[<<r, engaged[r]>>]

\* C28: when the composite score is tie-free in every man's row and
\* care_thresholds in every woman's row, the matching holistic_matching
\* returns has no blocking pair for the orders by descending composite score
\* and by descending care threshold.
HolisticStable ==
    (pc = "done" /\ HolisticTieFree) => \A p \in Men, r \in Women : ~DerivedBlockingPair(p, r)

\* A returned matching of two pairs under tie-free tables in which the sort
\* reordered a list and a man was displaced.
HolisticStableWitness ==
    /\ pc = "done"
    /\ HolisticTieFree
    /\ Cardinality(EngagedWomen) = 2
    /\ \E m \in Men : ScoredPreferences(m) # men_preferences[m]
    /\ Contested

(***************************************************************************)
(* The reference loop of the specification, one proposal per selection:    *)
(* the free proposer at the head of the queue proposes once; accepted, he  *)
(* leaves the queue; rejected, he goes to its end; displaced proposers are *)
(* appended.                                                               *)
(***************************************************************************)

\* After stable_marriage has returned (its matching and its histories kept
\* in first): the reference loop starts on the same tables.
CallReference ==
    /\ pc = "done"
    /\ run = 1
    /\ run < MaxRuns
    /\ run' = run + 1
    /\ first' = <<engaged, proposals>>
    /\ free_men' = Keys(men_preferences)
    /\ engaged' = [w \in Women |-> Unengaged]
    /\ proposals' = [m \in Men |-> <<>>]
    /\ man' = 0
    /\ pos' = 0
    /\ pc' = "while"
    /\ UNCHANGED <<men_preferences, women_preferences, outside>>

\* The proposer at the head has women left: one proposal.
ReferencePropose ==
    /\ pc = "while"
    /\ free_men # <<>>
    /\ ~ListExhausted(Head(free_men))
    /\ LET m == Head(free_men)
           woman == MostPreferredNew(m)
           current_man == engaged[woman]
       IN  /\ man' = m
           /\ proposals' = [proposals EXCEPT ![m] = Append(@, woman)]
           /\ IF current_man = Unengaged
                 THEN /\ engaged' = [engaged EXCEPT ![woman] = m]
                      /\ free_men' = Tail(free_men)
                 ELSE IF Before(women_preferences[woman], m, current_man)
                 THEN /\ engaged' = [engaged EXCEPT ![woman] = m]
                      /\ free_men' = Append(Tail(free_men), current_man)
                 ELSE /\ engaged' = engaged
                      /\ free_men' = Append(Tail(free_men), m)
    /\ UNCHANGED <<men_preferences, women_preferences, pos, pc, run, first, outside>>

\* The proposer at the head has proposed to everyone: he is unmatched.
ReferenceDrop ==
    /\ pc = "while"
    /\ free_men # <<>>
    /\ ListExhausted(Head(free_men))
    /\ man' = Head(free_men)
    /\ free_men' = Tail(free_men)
    /\ UNCHANGED <<men_preferences, women_preferences, engaged, proposals, pos, pc, run, first, outside>>

NextRefine ==
    \/ run = 1 /\ WhilePop
    \/ run = 1 /\ ForIteration
    \/ run = 1 /\ Return
    \/ CallReference
    \/ run = 2 /\ ReferencePropose
    \/ run = 2 /\ ReferenceDrop
    \/ run = 2 /\ Return

SpecRefine == Init /\ [][NextRefine]_vars

\* C29: on every input with complete tie-free lists the reference loop ends
\* with the matching and with the proposal history of every man that
\* stable_marriage ended with.
TurnLoopRefines == (run = 2 /\ pc = "done") => (engaged = first[1] /\ proposals = first[2])

\* Both loops are over on an input where a man was rejected twice within
\* one turn of stable_marriage and another was displaced.
TurnLoopRefinesWitness ==
    /\ run = 2
    /\ pc = "done"
    /\ engaged = first[1]
    /\ \E m \in Men : Len(proposals[m]) >= 3
    /\ \E m \in Men : Len(proposals[m]) = 2 /\ Partners(m) # {}
    /\ UnmatchedMen = {}

\* C30: at every test of the while condition, each engaged man is engaged to
\* the last woman of his history, and every woman he ranks above her is in
\* his history and engaged to a man she ranks above him.
RejectedByAllBetter ==
    pc \in {"while", "done"} =>
        \A m \in Men : \A w \in Partners(m) :
            /\ proposals[m] # <<>>
            /\ w = Last(proposals[m])
            /\ \A b \in Women :
                  Before(men_preferences[m], b, w) =>
                      /\ b \in Range(proposals[m])
                      /\ engaged[b] # Unengaged
                      /\ engaged[b] # m
                      /\ Before(women_preferences[b], engaged[b], m)

\* In the middle of a run a man is engaged to the second woman of his
\* history, and a man is back in free_men.
RejectedByAllBetterWitness ==
    /\ pc = "while"
    /\ free_men # <<>>
    /\ \E m \in Men : Partners(m) # {} /\ Len(proposals[m]) >= 2
    /\ \E m \in Men : Requeued(m)

(***************************************************************************)
(* Invariants of the loop of stable_marriage, lines 9-35.                  *)
(***************************************************************************)

\* How often m is a value of engaged.
TimesEngaged(m) == Cardinality({w \in Women : engaged[w] = m})

\* The three situations of a man at a test of the while condition.
Queued(m) == Count(free_men, m) = 1 /\ TimesEngaged(m) = 0
EngagedOnce(m) == Count(free_men, m) = 0 /\ TimesEngaged(m) = 1
Exhausted(m) == Count(free_men, m) = 0 /\ TimesEngaged(m) = 0 /\ ListExhausted(m)

\* C31: at every test of the while condition each man is queued in free_men
\* exactly once, or exactly once a value of engaged, or exhausted, and in
\* one of these situations only; free_men holds no man twice and no engaged
\* man.
ProposerPartition ==
    pc \in {"while", "done"} =>
        /\ \A m \in Men : Queued(m) \/ EngagedOnce(m) \/ Exhausted(m)
        /\ \A m \in Men : ~(Queued(m) /\ EngagedOnce(m)) /\ ~(Queued(m) /\ Exhausted(m))
                          /\ ~(EngagedOnce(m) /\ Exhausted(m))
        /\ NoDuplicates(free_men)
        /\ \A m \in Range(free_men) : Partners(m) = {}

\* A test of the while condition with one man in each situation.
ProposerPartitionWitness ==
    /\ pc = "while"
    /\ \E m \in Men : Queued(m) /\ proposals[m] # <<>>
    /\ \E m \in Men : EngagedOnce(m)
    /\ \E m \in Men : Exhausted(m)

\* The women who stand in the history of some man.
ProposedTo == UNION {Range(proposals[m]) : m \in Men}

\* C32: within a run a woman who has an entry in engaged keeps having one
\* (only the man changes), and in every state the women with an entry are
\* the women who stand in the history of some man.
EngagementPermanent ==
    /\ [][run' = run => \A w \in Women : engaged[w] # Unengaged => engaged'[w] # Unengaged]_vars
    /\ [](EngagedWomen = ProposedTo)

\* In a second call a woman has changed her partner and another woman has
\* not been proposed to yet.
EngagementPermanentWitness ==
    /\ run = 2
    /\ \E m \in Men : Requeued(m) /\ engaged[Last(proposals[m])] \notin {m, Unengaged}
    /\ EngagedWomen # Women
    /\ EngagedWomen # {}

\* C33: every change of a woman's partner brings her a man she ranks
\* strictly higher, and at the return her partner is the man she ranks
\* highest among all who proposed to her.
TradeUp ==
    /\ [][\A w \in Women :
            (engaged[w] # Unengaged /\ engaged'[w] # engaged[w]) =>
                /\ engaged'[w] # Unengaged
                /\ Rank(women_preferences[w], engaged'[w]) < Rank(women_preferences[w], engaged[w])]_vars
    /\ [](pc = "done" =>
            \A w \in Women, m \in Men :
                w \in Range(proposals[m]) =>
                    Rank(women_preferences[w], engaged[w]) <= Rank(women_preferences[w], m))

\* At the return a woman has her third man, her first choice, after all
\* three proposed to her.
TradeUpWitness ==
    /\ pc = "done"
    /\ \E w \in Women :
          /\ Cardinality({m \in Men : w \in Range(proposals[m])}) = 3
          /\ engaged[w] = women_preferences[w][1]
          /\ proposals[engaged[w]] # <<w>>

\* C34: at the return free_men is empty and every man who is no value of
\* engaged has every woman of his list in his history; with no more men than
\* women there is no such man, and every woman without entry has received
\* no proposal.
StateAtReturn ==
    pc = "done" =>
        /\ free_men = <<>>
        /\ \A m \in Men : TimesEngaged(m) = 0 => ListExhausted(m)
        /\ Len(men_preferences) <= Len(women_preferences) =>
              /\ \A m \in Men : TimesEngaged(m) = 1
              /\ \A w \in Women \ EngagedWomen : \A m \in Men : w \notin Range(proposals[m])

\* A return with fewer men than women after a rejection or displacement,
\* a woman being left without entry.
StateAtReturnWitness ==
    /\ pc = "done"
    /\ Len(men_preferences) < Len(women_preferences)
    /\ Contested
    /\ Women \ EngagedWomen # {}

\* The sum, over the entries with keys in S, of the two numbers of the entry.
RECURSIVE SumEntries(_)
SumEntries(S) ==
    IF S = {} THEN 0
    ELSE LET p == CHOOSE x \in S : TRUE
         IN  satisfaction[p][1] + satisfaction[p][2] + SumEntries(S \ {p})

\* C37: for the matching stable_marriage returned, happiness_score is the
\* sum over the entries of track_satisfaction of the man's rank plus the
\* woman's rank, and it is 0 exactly when every matched man and woman has the
\* first entry of his or her list.
ReportersAgree ==
    pc = "reported" =>
        /\ happiness = SumEntries(DOMAIN satisfaction)
        /\ happiness = 0 <=>
              \A w \in EngagedWomen :
                  /\ men_preferences[engaged[w]][1] = w
                  /\ women_preferences[w][1] = engaged[w]

\* A report over three pairs with a positive score, one pair of first
\* choices and one pair in which neither has the first choice.
ReportersAgreeWitness ==
    /\ pc = "reported"
    /\ Cardinality(DOMAIN satisfaction) = 3
    /\ happiness >= 4
    /\ \E p \in DOMAIN satisfaction : satisfaction[p] = <<0, 0>>
    /\ \E p \in DOMAIN satisfaction : satisfaction[p][1] > 0 /\ satisfaction[p][2] > 0

(***************************************************************************)
(* honor_based_matching and emotional_compatibility_matching of            *)
(* src/Ethical_Stable_Marriage_Matching_Algorithms.py, and the five score  *)
(* variants of the file under one specification.                           *)
(***************************************************************************)

\* Every complete input with a total table of honor_weights.
InitHonor ==
    /\ \E nP \in 1..MaxMen, nW \in 1..MaxWomen :
          /\ nP * nW <= MaxScoredPairs
          /\ men_preferences \in [1..nP -> Perms(1..nW)]
          /\ women_preferences \in [1..nW -> Perms(1..nP)]
          /\ honor_weights \in [(1..nP) \X (1..nW) -> 0..MaxScore]
    /\ free_men = Keys(men_preferences)
    /\ engaged = [w \in Women |-> Unengaged]
    /\ proposals = [m \in Men |-> <<>>]
    /\ man = 0
    /\ pos = 0
    /\ pc = "while"
    /\ run = 1
    /\ first = <<>>
    /\ respect_weights = <<>>
    /\ adjusted = <<>>
    /\ happiness = 0
    /\ satisfaction = <<>>
    /\ trust_scores = <<>>
    /\ care_thresholds = <<>>
    /\ emotional_scores = <<>>
    /\ NoThreads
    /\ NoLog

\* The lambda of line 72 can be evaluated on every woman of the man's list.
HonorKeysPresent(m) == \A k \in 1..Len(men_preferences[m]) : <<m, men_preferences[m][k]>> \in DOMAIN honor_weights

\* adjusted_preferences of line 72
HonorSortedPrefs(m) == SortedDesc(men_preferences[m], [w \in Range(men_preferences[m]) |-> honor_weights[<<m, w>>]])

\* honor_weights[(man, woman)] > honor_weights[(current_man, woman)], line 83
HonorPrefersMut(w, m, cur) == Prefers(w, m, cur)
HonorPrefers(w, m, cur) == honor_weights[<<m, w>>] > honor_weights[<<cur, w>>]

\* while free_men: man = free_men.pop(0); adjusted_preferences = sorted(...)
HonorPop ==
    /\ pc = "while"
    /\ free_men # <<>>
    /\ HonorKeysPresent(Head(free_men))
    /\ man' = Head(free_men)
    /\ free_men' = Tail(free_men)
    /\ pos' = 1
    /\ pc' = "for"
    /\ UNCHANGED <<men_preferences, women_preferences, engaged, proposals, run, first, outside>>

\* for woman in adjusted_preferences: woman already in proposals[man]
HonorSkipProposed ==
    /\ pc = "for"
    /\ pos <= Len(men_preferences[man])
    /\ HonorSortedPrefs(man)[pos] \in Range(proposals[man])
    /\ pos' = pos + 1
    /\ UNCHANGED <<men_preferences, women_preferences, free_men, engaged, proposals, man, pc, run, first, outside>>

\* one proposal of honor_based_matching
HonorPropose ==
    /\ pc = "for"
    /\ pos <= Len(men_preferences[man])
    /\ LET woman == HonorSortedPrefs(man)[pos]
           current_man == engaged[woman] IN
          /\ woman \notin Range(proposals[man])
          /\ proposals' = [proposals EXCEPT ![man] = Append(@, woman)]
          /\ log' = Append(log, <<man, woman>>)
          /\ IF current_man = Unengaged
                THEN /\ engaged' = [engaged EXCEPT ![woman] = man]
                     /\ pc' = "while"
                     /\ UNCHANGED <<free_men, pos>>
                ELSE IF HonorPrefers(woman, man, current_man)
                THEN /\ free_men' = Append(free_men, current_man)
                     /\ engaged' = [engaged EXCEPT ![woman] = man]
                     /\ pc' = "while"
                     /\ UNCHANGED pos
                ELSE /\ pos' = pos + 1
                     /\ UNCHANGED <<free_men, engaged, pc>>
    /\ UNCHANGED <<men_preferences, women_preferences, man, run, first, surroundings>>

\* the for loop of honor_based_matching ends without break
HonorForExhausted ==
    /\ pc = "for"
    /\ pos > Len(men_preferences[man])
    /\ pc' = "while"
    /\ UNCHANGED <<men_preferences, women_preferences, free_men, engaged, proposals, man, pos, run, first, outside>>

\* while free_men is false: return engaged
HonorReturn ==
    /\ pc = "while"
    /\ free_men = <<>>
    /\ pc' = "done"
    /\ UNCHANGED <<men_preferences, women_preferences, free_men, engaged, proposals, man, pos, run, first, outside>>

\* Every complete input with a total table of emotional_scores.
InitEmotional ==
    /\ \E nP \in 1..MaxMen, nW \in 1..MaxWomen :
          /\ nP * nW <= MaxScoredPairs
          /\ men_preferences \in [1..nP -> Perms(1..nW)]
          /\ women_preferences \in [1..nW -> Perms(1..nP)]
          /\ emotional_scores \in [(1..nP) \X (1..nW) -> 0..MaxScore]
    /\ free_men = Keys(men_preferences)
    /\ engaged = [w \in Women |-> Unengaged]
    /\ proposals = [m \in Men |-> <<>>]
    /\ man = 0
    /\ pos = 0
    /\ pc = "while"
    /\ run = 1
    /\ first = <<>>
    /\ respect_weights = <<>>
    /\ adjusted = <<>>
    /\ happiness = 0
    /\ satisfaction = <<>>
    /\ trust_scores = <<>>
    /\ care_thresholds = <<>>
    /\ honor_weights = <<>>
    /\ NoThreads
    /\ NoLog

\* The lambda of line 160 can be evaluated on every woman of the man's list.
EmotionalKeysPresent(m) == \A k \in 1..Len(men_preferences[m]) : <<m, men_preferences[m][k]>> \in DOMAIN emotional_scores

\* sorted_prefs of line 160
EmotionalSortedPrefs(m) == SortedDesc(men_preferences[m], [w \in Range(men_preferences[m]) |-> emotional_scores[<<m, w>>]])

\* emotional_scores[(man, woman)] > emotional_scores[(current_man, woman)], line 171
EmotionalPrefers(w, m, cur) == emotional_scores[<<m, w>>] > emotional_scores[<<cur, w>>]

\* while free_men: man = free_men.pop(0); sorted_prefs = sorted(...)
EmotionalPop ==
    /\ pc = "while"
    /\ free_men # <<>>
    /\ EmotionalKeysPresent(Head(free_men))
    /\ man' = Head(free_men)
    /\ free_men' = Tail(free_men)
    /\ pos' = 1
    /\ pc' = "for"
    /\ UNCHANGED <<men_preferences, women_preferences, engaged, proposals, run, first, outside>>

\* for woman in sorted_prefs: woman already in proposals[man]
EmotionalSkipProposed ==
    /\ pc = "for"
    /\ pos <= Len(men_preferences[man])
    /\ EmotionalSortedPrefs(man)[pos] \in Range(proposals[man])
    /\ pos' = pos + 1
    /\ UNCHANGED <<men_preferences, women_preferences, free_men, engaged, proposals, man, pc, run, first, outside>>

\* one proposal of emotional_compatibility_matching
EmotionalPropose ==
    /\ pc = "for"
    /\ pos <= Len(men_preferences[man])
    /\ LET woman == EmotionalSortedPrefs(man)[pos]
           current_man == engaged[woman] IN
          /\ woman \notin Range(proposals[man])
          /\ proposals' = [proposals EXCEPT ![man] = Append(@, woman)]
          /\ log' = Append(log, <<man, woman>>)
          /\ IF current_man = Unengaged
                THEN /\ engaged' = [engaged EXCEPT ![woman] = man]
                     /\ pc' = "while"
                     /\ UNCHANGED <<free_men, pos>>
                ELSE IF EmotionalPrefers(woman, man, current_man)
                THEN /\ free_men' = Append(free_men, current_man)
                     /\ engaged' = [engaged EXCEPT ![woman] = man]
                     /\ pc' = "while"
                     /\ UNCHANGED pos
                ELSE /\ pos' = pos + 1
                     /\ UNCHANGED <<free_men, engaged, pc>>
    /\ UNCHANGED <<men_preferences, women_preferences, man, run, first, surroundings>>

\* the for loop of emotional_compatibility_matching ends without break
EmotionalForExhausted ==
    /\ pc = "for"
    /\ pos > Len(men_preferences[man])
    /\ pc' = "while"
    /\ UNCHANGED <<men_preferences, women_preferences, free_men, engaged, proposals, man, pos, run, first, outside>>

\* while free_men is false: return engaged
EmotionalReturn ==
    /\ pc = "while"
    /\ free_men = <<>>
    /\ pc' = "done"
    /\ UNCHANGED <<men_preferences, women_preferences, free_men, engaged, proposals, man, pos, run, first, outside>>

\* trust_based_stable_marriage called with a table that has every key.
InitTrustComplete ==
    /\ InitTrust
    /\ DOMAIN trust_scores = Men \X Women

\* A call of one of the five functions.
InitVariants ==
    \/ InitTrustComplete
    \/ InitHonor
    \/ InitEmotional
    \/ InitCare
    \/ InitHolistic

\* Which function was called, by the tables it was given.
CalledTrust == trust_scores # <<>> /\ care_thresholds = <<>>
CalledHonor == honor_weights # <<>> /\ care_thresholds = <<>>
CalledEmotional == emotional_scores # <<>> /\ care_thresholds = <<>>
CalledCare == care_thresholds # <<>> /\ trust_scores = <<>>
CalledHolistic == care_thresholds # <<>> /\ trust_scores # <<>>

\* The caller calls the same function again with the same men_preferences
\* and the same tables, and with another women_preferences.
CallOtherWomen ==
    /\ pc = "done"
    /\ run = 1
    /\ run < MaxRuns
    /\ \E other \in [Women -> Perms(Men)] :
          /\ other # women_preferences
          /\ women_preferences' = other
    /\ run' = run + 1
    /\ first' = <<engaged, log>>
    /\ free_men' = Keys(men_preferences)
    /\ engaged' = [w \in Women |-> Unengaged]
    /\ proposals' = [m \in Men |-> <<>>]
    /\ log' = <<>>
    /\ man' = 0
    /\ pos' = 0
    /\ pc' = "while"
    /\ UNCHANGED <<men_preferences, surroundings>>

NextVariants ==
    \/ CalledTrust /\ TrustPop
    \/ CalledTrust /\ TrustSkipProposed
    \/ CalledTrust /\ TrustPropose
    \/ CalledTrust /\ TrustForExhausted
    \/ CalledTrust /\ TrustReturn
    \/ CalledHonor /\ HonorPop
    \/ CalledHonor /\ HonorSkipProposed
    \/ CalledHonor /\ HonorPropose
    \/ CalledHonor /\ HonorForExhausted
    \/ CalledHonor /\ HonorReturn
    \/ CalledEmotional /\ EmotionalPop
    \/ CalledEmotional /\ EmotionalSkipProposed
    \/ CalledEmotional /\ EmotionalPropose
    \/ CalledEmotional /\ EmotionalForExhausted
    \/ CalledEmotional /\ EmotionalReturn
    \/ CalledCare /\ CarePop
    \/ CalledCare /\ CareSkipProposed
    \/ CalledCare /\ CarePropose
    \/ CalledCare /\ CareForExhausted
    \/ CalledCare /\ CareReturn
    \/ CalledHolistic /\ HolisticPop
    \/ CalledHolistic /\ HolisticSkipProposed
    \/ CalledHolistic /\ HolisticPropose
    \/ CalledHolistic /\ HolisticForExhausted
    \/ CalledHolistic /\ HolisticReturn
    \/ CallOtherWomen

SpecVariants == InitVariants /\ [][NextVariants]_vars

\* The number the called function compares at an engaged woman: the entry
\* read at lines 28, 83, 171, 126 and 225.
ReceiverScore(m, w) ==
    IF CalledTrust THEN trust_scores[<<m, w>>]
    ELSE IF CalledHonor THEN honor_weights[<<m, w>>]
    ELSE IF CalledEmotional THEN emotional_scores[<<m, w>>]
    ELSE care_thresholds[<<w, m>>]

\* The step is a proposal of man to w.
ProposesTo(w) ==
    /\ pc = "for"
    /\ proposals'[man] = Append(proposals[man], w)

\* C35: in the five score variants an engaged woman changes partner only
\* to a proposer whose score for her is strictly greater than her partner's;
\* a proposal with an equal score leaves her partner and free_men as they
\* were, and the proposer, still without a partner, goes on to the next
\* entry of his list.
TiesKeepIncumbent ==
    [][run' = run =>
          /\ \A w \in Women :
                (engaged[w] # Unengaged /\ engaged'[w] # engaged[w]) =>
                    /\ ProposesTo(w)
                    /\ engaged'[w] = man
                    /\ ReceiverScore(man, w) > ReceiverScore(engaged[w], w)
          /\ \A w \in Women :
                (/\ ProposesTo(w)
                 /\ engaged[w] # Unengaged
                 /\ ReceiverScore(man, w) = ReceiverScore(engaged[w], w)) =>
                    /\ engaged' = engaged
                    /\ free_men' = free_men
                    /\ TimesEngaged(man)' = 0
                    /\ Count(free_men', man) = 0
                    /\ man' = man
                    /\ pc' = "for"
                    /\ pos' = pos + 1]_vars

\* The proposer has just been turned down by a woman whose partner has the
\* same score as he has, and has entries of his list left.
TiesKeepIncumbentWitness ==
    /\ pc = "for"
    /\ pos >= 2
    /\ pos <= Len(men_preferences[man])
    /\ proposals[man] # <<>>
    /\ LET w == Last(proposals[man]) IN
          /\ engaged[w] # Unengaged
          /\ engaged[w] # man
          /\ ReceiverScore(man, w) = ReceiverScore(engaged[w], w)

\* C36: two runs of one score variant on the same men_preferences and the
\* same score tables, with different women_preferences, make the same
\* proposals in the same order and return the same matching.
WomenPreferencesIgnored ==
    (run = 2 /\ pc = "done") => (engaged = first[1] /\ log = first[2])

\* The second run has returned, and in it a woman kept a partner although
\* her list of the second call puts a man she turned down before him.
WomenPreferencesIgnoredWitness ==
    /\ run = 2
    /\ pc = "done"
    /\ women_preferences # [w \in Women |-> [k \in 1..Len(men_preferences) |-> k]]
    /\ \E w \in Women, m \in Men :
          /\ engaged[w] # Unengaged
          /\ engaged[w] # m
          /\ w \in Range(proposals[m])
          /\ Before(women_preferences[w], m, engaged[w])

====
